---- MODULE Spec2Model ----
(***************************************************************************)
(* TapCard: the three deployments of the vCard tap service.                *)
(*   "local"   - src/unnamed/part_000 (v3.0.0): one card on local disk     *)
(*   "remote"  - src/unnamed/part_001 (v5.0.0): cards on a remote origin   *)
(*   "storage" - src/server.js        (v7.0.0): cards in Supabase Storage  *)
(* Strings are sequences of code points, so that String.includes, the      *)
(* header-value check and the file-name templates are computed, not        *)
(* assumed.                                                                *)
(***************************************************************************)
EXTENDS Naturals, Sequences, FiniteSets

VARIABLES variant, cfg, present, up, req

vars == <<variant, cfg, present, up, req>>

\* ---------------------------------------------------------------- bounds
\* Requests in flight in Spec; SpecConcurrent has one more.
NReq == 1
\* Characters put before and after "iPhone" in a User-Agent.
MaxPad == 1

\* The requests of a run.
Req == DOMAIN req

\* ---------------------------------------------------------------- strings
\* "iPhone"
IPhone == <<105, 80, 104, 111, 110, 101>>
\* "iphone"
LowerIPhone == <<105, 112, 104, 111, 110, 101>>
\* "Android"
Android == <<65, 110, 100, 114, 111, 105, 100>>
\* ".vcf"
DotVcf == <<46, 118, 99, 102>>
\* "_Contact.vcf"
ContactSuffix == <<95, 67, 111, 110, 116, 97, 99, 116>> \o DotVcf
\* "Anand_Bhutkar_Contact.vcf"
LegacyFileName == <<65, 110, 97, 110, 100, 95, 66, 104, 117, 116, 107, 97, 114>> \o ContactSuffix
\* "anand"
Anand == <<97, 110, 97, 110, 100>>
\* "demo"
Demo == <<100, 101, 109, 111>>
\* "contact"
Contact == <<99, 111, 110, 116, 97, 99, 116>>
\* "doesnotexist"
DoesNotExist == <<100, 111, 101, 115, 110, 111, 116, 101, 120, 105, 115, 116>>
\* a one-character card name outside Latin-1 (U+674E)
Li == <<26446>>
\* "not found"
NotFoundText == <<110, 111, 116, 32, 102, 111, 117, 110, 100>>
\* "Supabase URL not configured"
MsgNotConfigured == <<83, 117, 112, 97, 98, 97, 115, 101, 32, 85, 82, 76, 32, 110, 111, 116, 32, 99, 111, 110, 102, 105, 103, 117, 114, 101, 100>>
\* "Object not found"
MsgObjectNotFound == <<79, 98, 106, 101, 99, 116, 32>> \o NotFoundText
\* "Request failed 404" (the message of an axios error with a 404 response)
MsgStatus404 == <<82, 101, 113, 117, 101, 115, 116, 32, 102, 97, 105, 108, 101, 100, 32, 52, 48, 52>>
\* "Request failed 503" (the message of an axios error with a 503 response)
MsgStatus503 == <<82, 101, 113, 117, 101, 115, 116, 32, 102, 97, 105, 108, 101, 100, 32, 53, 48, 51>>
\* "connect ECONNREFUSED" (the message of a transport error)
MsgRefused == <<99, 111, 110, 110, 101, 99, 116, 32, 69, 67, 79, 78, 78, 82, 69, 70, 85, 83, 69, 68>>
\* "Invalid char" (the message of the TypeError res.setHeader throws)
MsgInvalidChar == <<73, 110, 118, 97, 108, 105, 100, 32, 99, 104, 97, 114>>
\* "ENOENT" (the message of a failed local open)
MsgNoEntry == <<69, 78, 79, 69, 78, 84>>

RECURSIVE Pad(_)
Pad(n) == IF n = 0 THEN <<>> ELSE <<120>> \o Pad(n - 1)

\* A substring search that ignores the case of ASCII letters.
Lower(c) == IF c >= 65 /\ c <= 90 THEN c + 32 ELSE c

IncludesIgnoreCase(s, sub) ==
    \E i \in 0..Len(s) :
        /\ i + Len(sub) <= Len(s)
        /\ \A k \in 1..Len(sub) : Lower(s[i + k]) = Lower(sub[k])

\* String.prototype.includes: an unanchored, case-sensitive substring search.
Includes(s, sub) ==
    \E i \in 0..Len(s) :
        /\ i + Len(sub) <= Len(s)
        /\ SubSeq(s, i + 1, i + Len(sub)) = sub

\* req.get('User-Agent') || ''
UserAgentOf(h) == IF h.present THEN h.text ELSE <<>>

\* The branch taken on userAgent.includes('iPhone').
Classify(h) == IF Includes(UserAgentOf(h), IPhone) THEN "InlineView" ELSE "ForceDownload"

ObjectPath(cardName) == cardName \o DotVcf

FileName(cardName) == cardName \o ContactSuffix

\* What res.setHeader accepts in a header value: TAB, 0x20-0x7e, 0x80-0xff.
HeaderValueValid(v) ==
    \A i \in 1..Len(v) :
        \/ v[i] = 9
        \/ (v[i] >= 32 /\ v[i] <= 126)
        \/ (v[i] >= 128 /\ v[i] <= 255)

\* The bytes of a stored card.
Content(path) ==
    CASE path = ObjectPath(Anand) -> <<1, 2>>
      [] path = ObjectPath(Li) -> <<2, 1>>
      [] path = ObjectPath(Demo) -> <<3, 4>>
      [] OTHER -> <<5, 6>>

\* ---------------------------------------------------------------- inputs
NoUA == [present |-> FALSE, text |-> <<>>]

UserAgents ==
    {NoUA, [present |-> TRUE, text |-> <<>>], [present |-> TRUE, text |-> Android]}
    \cup
    {[present |-> TRUE, text |-> LowerIPhone]}
    \cup
    {[present |-> TRUE, text |-> Pad(a) \o IPhone \o Pad(b)] :
        a \in 0..MaxPad, b \in 0..MaxPad}

\* "aborted" (the message of a stream error or of an aborted request)
MsgAborted == <<97, 98, 111, 114, 116, 101, 100>>

\* ---------------------------------------------------------------- errors
\* A thrown value: isAxiosError, error.response.status (0: no response) and
\* error.message.
NoError == [isAxiosError |-> FALSE, status |-> 0, message |-> <<>>]

ConfigError == [isAxiosError |-> FALSE, status |-> 0, message |-> MsgNotConfigured]

StorageNotFound == [isAxiosError |-> FALSE, status |-> 0, message |-> MsgObjectNotFound]

StorageFailure == [isAxiosError |-> FALSE, status |-> 0, message |-> MsgRefused]

AxiosNotFound == [isAxiosError |-> TRUE, status |-> 404, message |-> MsgStatus404]

AxiosUnavailable == [isAxiosError |-> TRUE, status |-> 503, message |-> MsgStatus503]

AxiosNetwork == [isAxiosError |-> TRUE, status |-> 0, message |-> MsgRefused]

HeaderError == [isAxiosError |-> FALSE, status |-> 0, message |-> MsgInvalidChar]

FileMissing == [isAxiosError |-> FALSE, status |-> 0, message |-> MsgNoEntry]

StreamError == [isAxiosError |-> FALSE, status |-> 0, message |-> MsgAborted]

\* ---------------------------------------------------------------- state
IdleReq ==
    [pc |-> "idle", route |-> "none", name |-> <<>>, ua |-> NoUA,
     cat |-> "none", err |-> NoError, status |-> 0, sent |-> FALSE,
     ctype |-> "", disp |-> <<>>, kind |-> "none", error |-> "",
     message |-> "",
     bytes |-> <<>>, conn |-> "open", src |-> "none", path |-> <<>>,
     calls |-> 0, writes |-> 0, logged |-> FALSE]

Configs ==
    {[url |-> u, public |-> p] : u \in BOOLEAN, p \in BOOLEAN}

Stores(v) ==
    CASE v = "local" -> {{}, {Contact \o DotVcf}}
      [] v = "remote" -> {{ObjectPath(Anand), ObjectPath(Li)}}
      [] OTHER -> {{ObjectPath(Anand)},
                   {ObjectPath(Anand), ObjectPath(Demo)}}

\* Module load: createClient(SUPABASE_URL || '', key) runs before app.listen.
\* supabase-js refuses an empty URL ('supabaseUrl is required.') and the
\* exception ends the process; a client that accepted it would leave the
\* process up. Both outcomes are kept.
Loaded(v, c) == IF v = "storage" /\ ~c.url THEN {TRUE, FALSE} ELSE {TRUE}

Deployed ==
    /\ variant \in {"local", "remote", "storage"}
    /\ cfg \in Configs
    /\ (variant # "storage" => cfg = [url |-> TRUE, public |-> TRUE])
    /\ present \in Stores(variant)
    /\ up \in Loaded(variant, cfg)

Init ==
    /\ Deployed
    /\ req = [r \in 1..NReq |-> IdleReq]

InitConcurrent ==
    /\ Deployed
    /\ req = [r \in 1..(NReq + 1) |-> IdleReq]

\* ---------------------------------------------------------------- handlers
\* A catch block that looks at the axios status only.
CatchStatusByStatus(v, route, e) ==
    IF e.isAxiosError /\ e.status = 404 THEN 404 ELSE 500

\* The catch blocks: the HTTP status chosen for a caught error.
\*   storage, /tap/:cardName  server.js 105-112
\*   storage, /tap            server.js 144-148
\*   remote,  /tap/:cardName  part_001 58-62
CatchStatus(v, route, e) ==
    IF v = "storage" /\ route = "card"
    THEN IF e.isAxiosError /\ e.status = 404 THEN 404
         ELSE IF Includes(e.message, NotFoundText) THEN 404
         ELSE 500
    ELSE IF v = "storage"
    THEN IF e.isAxiosError /\ e.status = 404 THEN 404 ELSE 500
    ELSE IF e.status = 404 THEN 404 ELSE 500

\* res.status(code).json({error, message}) of the catch blocks, after the
\* console.error that precedes it.
Caught(q, e) ==
    LET code == CatchStatus(variant, q.route, e) IN
    [q EXCEPT !.pc = "done", !.err = e, !.logged = TRUE,
              !.status = code, !.sent = TRUE, !.writes = @ + 1,
              !.kind = "json",
              !.error = IF code = 404 THEN "Not Found" ELSE "Internal Server Error",
              !.message = IF code = 404
                          THEN "The requested contact card does not exist."
                          ELSE "Could not retrieve the contact card.",
              !.conn = "ended"]

\* getFetchableUrlForVcf up to its first await, and the axios call that
\* follows a public URL: the state of the request after the synchronous part.
Resolve(q) ==
    IF variant = "storage" /\ ~cfg.url
    THEN Caught(q, ConfigError)
    ELSE IF variant = "storage" /\ ~cfg.public
    THEN [q EXCEPT !.pc = "signing", !.calls = @ + 1]
    ELSE [q EXCEPT !.pc = "fetching", !.calls = @ + 1]

\* A header step that sets Content-Type and Content-Disposition together.
SchemeHeadersBoth(q, cat, fileName) ==
    [q EXCEPT !.cat = cat, !.ctype = "text/vcard", !.disp = fileName]

\* The header scheme of a category: Content-Type for the iPhone branch,
\* Content-Disposition: attachment; filename="..." for the other.
SchemeHeaders(q, cat, fileName) ==
    IF cat = "InlineView"
    THEN [q EXCEPT !.cat = cat, !.ctype = "text/vcard"]
    ELSE [q EXCEPT !.cat = cat, !.disp = fileName]

\* The file name offered for download.
DownloadName(q) == IF q.route = "card" THEN FileName(q.name) ELSE LegacyFileName

\* A continuation that pipes with the download header and never classifies.
FetchedUnclassified(q) ==
    [q EXCEPT !.src = "open", !.disp = LegacyFileName, !.pc = "piping"]

\* The code after `await axios(...)` resolved with a stream: classify, set the
\* header (which throws on an invalid value), pipe.
Fetched(q) ==
    LET cat == Classify(q.ua)
        opened == [q EXCEPT !.src = "open"]
    IN  IF cat = "ForceDownload" /\ ~HeaderValueValid(DownloadName(q))
        THEN Caught([opened EXCEPT !.cat = cat], HeaderError)
        ELSE [SchemeHeaders(opened, cat, DownloadName(q)) EXCEPT !.pc = "piping"]

Enabled(r) ==
    /\ up
    /\ req[r].pc = "idle"
    /\ \A o \in Req : o < r => req[o].pc # "idle"

\* GET /tap/:cardName (remote and storage deployments).
TapCard(r, cardName, ua) ==
    /\ Enabled(r)
    /\ variant \in {"remote", "storage"}
    /\ req' = [req EXCEPT ![r] =
                 Resolve([@ EXCEPT !.route = "card", !.name = cardName, !.ua = ua,
                                   !.path = ObjectPath(cardName)])]
    /\ UNCHANGED <<variant, cfg, present, up>>

\* GET /tap of the storage deployment: the fixed demo card.
TapDemo(r, ua) ==
    /\ Enabled(r)
    /\ variant = "storage"
    /\ req' = [req EXCEPT ![r] =
                 Resolve([@ EXCEPT !.route = "tap", !.name = Demo, !.ua = ua,
                                   !.path = ObjectPath(Demo)])]
    /\ UNCHANGED <<variant, cfg, present, up>>

\* GET /tap of the remote deployment: res.redirect('/tap/anand').
TapRedirect(r, ua) ==
    /\ Enabled(r)
    /\ variant = "remote"
    /\ req' = [req EXCEPT ![r] =
                 [@ EXCEPT !.route = "tap", !.ua = ua, !.pc = "done",
                           !.status = 302, !.sent = TRUE, !.writes = @ + 1,
                           !.kind = "redirect", !.conn = "ended"]]
    /\ UNCHANGED <<variant, cfg, present, up>>

\* GET /tap of the local deployment: classify first; the iPhone branch sets
\* Content-Type at once, then res.sendFile or res.download open the file
\* asynchronously.
TapLocal(r, ua) ==
    /\ Enabled(r)
    /\ variant = "local"
    /\ req' = [req EXCEPT ![r] =
                 [@ EXCEPT !.route = "tap", !.name = Contact, !.ua = ua,
                           !.path = ObjectPath(Contact),
                           !.cat = Classify(ua),
                           !.ctype = IF Classify(ua) = "InlineView" THEN "text/vcard" ELSE "",
                           !.pc = "opening"]]
    /\ UNCHANGED <<variant, cfg, present, up>>

\* GET /health.
Health(r) ==
    /\ Enabled(r)
    /\ req' = [req EXCEPT ![r] =
                 [@ EXCEPT !.route = "health", !.pc = "done",
                           !.status = 200, !.sent = TRUE, !.writes = @ + 1,
                           !.kind = "health", !.conn = "ended"]]
    /\ UNCHANGED <<variant, cfg, present, up>>

\* createSignedUrl answers (private bucket): a signed URL, which is then
\* fetched, or an error, which is thrown into the catch block.
SignReply(r, fault) ==
    /\ up
    /\ req[r].pc = "signing"
    /\ req' = [req EXCEPT ![r] =
                 IF fault THEN Caught(@, StorageFailure)
                 ELSE IF @.path \in present
                 THEN [@ EXCEPT !.pc = "fetching", !.calls = @ + 1]
                 ELSE Caught(@, StorageNotFound)]
    /\ UNCHANGED <<variant, cfg, present, up>>

\* axios resolves with a stream or rejects.
FetchReply(r, fault) ==
    /\ up
    /\ req[r].pc = "fetching"
    /\ req' = [req EXCEPT ![r] =
                 IF fault = "network" THEN Caught(@, AxiosNetwork)
                 ELSE IF fault = "status" THEN Caught(@, AxiosUnavailable)
                 ELSE IF @.path \in present THEN Fetched(@)
                 ELSE Caught(@, AxiosNotFound)]
    /\ UNCHANGED <<variant, cfg, present, up>>

\* The callbacks given to res.sendFile and res.download: log, and answer 500
\* with a text body unless the headers are already out.
SendCallback(q, e) ==
    IF q.sent
    THEN [q EXCEPT !.err = e, !.logged = TRUE]
    ELSE [q EXCEPT !.err = e, !.logged = TRUE, !.status = 500, !.sent = TRUE,
                   !.writes = @ + 1, !.kind = "text",
                   !.error = "",
                   !.message = IF q.cat = "InlineView"
                               THEN "Error: Could not process the contact card."
                               ELSE "Error: Could not download the file."]

\* The local file is opened, or the open fails and the callback runs.
FileOpened(r) ==
    /\ up
    /\ req[r].pc = "opening"
    /\ req' = [req EXCEPT ![r] =
                 IF @.path \in present
                 THEN [SchemeHeaders(@, @.cat, LegacyFileName)
                         EXCEPT !.src = "open", !.pc = "piping",
                                !.ctype = IF @ = "" THEN "text/x-vcard" ELSE @]
                 ELSE [SendCallback(@, FileMissing)
                         EXCEPT !.pc = "done", !.conn = "ended"]]
    /\ UNCHANGED <<variant, cfg, present, up>>

\* One chunk of the source reaches the response; the first write sends the
\* status line (200) and the headers.
PipeData(r) ==
    /\ up
    /\ req[r].pc = "piping"
    /\ Len(req[r].bytes) < Len(Content(req[r].path))
    /\ req' = [req EXCEPT ![r] =
                 [@ EXCEPT !.bytes = Append(@, Content(req[r].path)[Len(@) + 1]),
                           !.kind = "stream",
                           !.status = 200, !.sent = TRUE,
                           !.writes = IF req[r].sent THEN @ ELSE @ + 1]]
    /\ UNCHANGED <<variant, cfg, present, up>>

\* The source ends: pipe() ends the response.
PipeEnd(r) ==
    /\ up
    /\ req[r].pc = "piping"
    /\ Len(req[r].bytes) = Len(Content(req[r].path))
    /\ req' = [req EXCEPT ![r] =
                 [@ EXCEPT !.pc = "done", !.src = "ended", !.conn = "ended"]]
    /\ UNCHANGED <<variant, cfg, present, up>>

\* The upstream stream emits 'error' while piped. The handlers attach no
\* 'error' listener to response.data and pipe() does not end the response:
\* either the event is thrown as an uncaught exception and the process
\* exits, or the stream swallows it and the response stays open.
UpstreamError(r, thrown) ==
    /\ up
    /\ variant \in {"remote", "storage"}
    /\ req[r].pc = "piping"
    /\ req' = [req EXCEPT ![r] = [@ EXCEPT !.pc = "stuck", !.src = "errored", !.err = StreamError]]
    /\ up' = ~thrown
    /\ UNCHANGED <<variant, cfg, present>>

\* A read error of the local file while it is sent: the callback runs; what
\* becomes of the connection is left to the send library.
LocalReadError(r, closed) ==
    /\ up
    /\ variant = "local"
    /\ req[r].pc = "piping"
    /\ req' = [req EXCEPT ![r] =
                 [SendCallback(@, StreamError)
                    EXCEPT !.src = "closed",
                           !.pc = IF req[r].sent /\ ~closed THEN "stuck" ELSE "done",
                           !.conn = IF ~req[r].sent THEN "ended"
                                    ELSE IF closed THEN "closed" ELSE "open"]]
    /\ UNCHANGED <<variant, cfg, present, up>>

\* The client disconnects while the card is streamed. pipe() unpipes and
\* pauses the source; nothing in the remote and storage handlers destroys
\* it. In the local deployment the callback runs and the file is closed.
ClientAbort(r) ==
    /\ up
    /\ req[r].pc = "piping"
    /\ req' = [req EXCEPT ![r] =
                 IF variant = "local"
                 THEN [SendCallback(@, StreamError)
                         EXCEPT !.pc = "done", !.conn = "closed", !.src = "closed"]
                 ELSE [@ EXCEPT !.pc = "done", !.conn = "closed", !.src = "paused"]]
    /\ UNCHANGED <<variant, cfg, present, up>>

\* ---------------------------------------------------------------- system
CardNames == {Anand, DoesNotExist} \cup (IF variant = "remote" THEN {Li} ELSE {})

Next ==
    \/ \E r \in Req, ua \in UserAgents, n \in CardNames : TapCard(r, n, ua)
    \/ \E r \in Req, ua \in UserAgents : TapDemo(r, ua)
    \/ \E r \in Req, ua \in UserAgents : TapRedirect(r, ua)
    \/ \E r \in Req, ua \in UserAgents : TapLocal(r, ua)
    \/ \E r \in Req : Health(r)
    \/ \E r \in Req, fault \in BOOLEAN : SignReply(r, fault)
    \/ \E r \in Req, fault \in {"none", "network", "status"} : FetchReply(r, fault)
    \/ \E r \in Req : FileOpened(r)
    \/ \E r \in Req : PipeData(r)
    \/ \E r \in Req : PipeEnd(r)
    \/ \E r \in Req, thrown \in BOOLEAN : UpstreamError(r, thrown)
    \/ \E r \in Req, closed \in BOOLEAN : LocalReadError(r, closed)
    \/ \E r \in Req : ClientAbort(r)

Spec == Init /\ [][Next]_vars

SpecConcurrent == InitConcurrent /\ [][Next]_vars

\* ---------------------------------------------------------------- properties
\* "iPhone" occurs in text, spelled out character by character.
HasIPhone(text) ==
    \E i \in 1..Len(text) :
        /\ i + 5 <= Len(text)
        /\ text[i] = 105 /\ text[i + 1] = 80 /\ text[i + 2] = 104
        /\ text[i + 3] = 111 /\ text[i + 4] = 110 /\ text[i + 5] = 101

\* The request asked an endpoint that serves a card.
Serving(q) == q.route = "card" \/ (q.route = "tap" /\ variant # "remote")

\* The request is streaming a card or has streamed one.
Streams(q) == q.pc = "piping" \/ q.kind = "stream" \/ q.src # "none"

InlineScheme(q) == q.ctype = "text/vcard" /\ q.disp = <<>>

DownloadScheme(q) == q.disp # <<>>

\* The source could not be asked: a transport or provider failure.
Unreachable(q) == q.err \in {StorageFailure, AxiosNetwork, AxiosUnavailable}

\* C1: whenever a request has been given a delivery category, the category
\* is InlineView if and only if a User-Agent header is present and contains
\* "iPhone" (case-sensitive, anywhere); an absent or empty header gives
\* ForceDownload. Every request that streams a card has a category.
C1_ClassifyByIPhone ==
    \A r \in Req :
        /\ Streams(req[r]) => req[r].cat # "none"
        /\ req[r].cat # "none" =>
             /\ req[r].cat \in {"InlineView", "ForceDownload"}
             /\ req[r].cat = "InlineView" <=>
                  (req[r].ua.present /\ HasIPhone(req[r].ua.text))

C1_Witness ==
    \E r \in Req :
        /\ req[r].ua.present
        /\ req[r].ua.text = Pad(MaxPad) \o IPhone \o Pad(MaxPad)
        /\ req[r].cat = "InlineView"
        /\ req[r].kind = "stream"

\* C2: a GET /tap/:cardName for a card that exists at the configured
\* source, once answered by a reachable source, has ended with status 200,
\* a body equal to the source bytes and the header scheme of the category
\* of its User-Agent.
C2_ExistingCardServed ==
    \A r \in Req :
        ( /\ req[r].route = "card"
          /\ req[r].path \in present
          /\ (variant = "storage" => cfg.url)
          /\ req[r].pc = "done" /\ req[r].conn = "ended"
          /\ ~Unreachable(req[r]) )
        => /\ req[r].status = 200
           /\ req[r].kind = "stream"
           /\ req[r].bytes = Content(req[r].path)
           /\ IF req[r].ua.present /\ HasIPhone(req[r].ua.text)
              THEN InlineScheme(req[r])
              ELSE req[r].disp = FileName(req[r].name)

\* C3: a request that streams a card has exactly one category and the
\* header scheme of that category: InlineView carries Content-Type
\* text/vcard and no Content-Disposition, ForceDownload carries
\* Content-Disposition: attachment; no response carries both schemes.
C3_OneScheme ==
    \A r \in Req :
        (req[r].pc = "piping" \/ req[r].kind = "stream") =>
            \/ /\ req[r].cat = "InlineView"
               /\ InlineScheme(req[r]) /\ ~DownloadScheme(req[r])
            \/ /\ req[r].cat = "ForceDownload"
               /\ DownloadScheme(req[r]) /\ ~InlineScheme(req[r])

C3_Witness ==
    \E r \in Req :
        /\ req[r].kind = "stream" /\ req[r].pc = "done"
        /\ req[r].cat = "InlineView" /\ InlineScheme(req[r])

\* C4: a GET /tap/:cardName for a card that does not exist at the
\* configured source (public bucket, private bucket, remote origin), once
\* the source has answered, is answered 404 with a JSON body whose error is
\* "Not Found", whatever the User-Agent.
C4_MissingCardNotFound ==
    \A r \in Req :
        ( /\ req[r].route = "card"
          /\ req[r].path \notin present
          /\ (variant = "storage" => cfg.url)
          /\ req[r].pc = "done"
          /\ ~Unreachable(req[r]) )
        => /\ req[r].status = 404
           /\ req[r].kind = "json"
           /\ req[r].error = "Not Found"
           /\ req[r].writes = 1

C4_Witness ==
    \E r \in Req :
        /\ req[r].route = "card" /\ req[r].path \notin present
        /\ variant = "storage" /\ ~cfg.public
        /\ req[r].ua.present /\ HasIPhone(req[r].ua.text)
        /\ req[r].status = 404 /\ req[r].err = StorageNotFound

\* C5: with SUPABASE_URL unset the service runs, GET /tap and
\* GET /tap/:cardName are answered 500 for every card name and User-Agent
\* without any outbound call, and GET /health is answered 200.
C5_NoConfiguration ==
    (variant = "storage" /\ ~cfg.url) =>
        /\ up
        /\ \A r \in Req :
            /\ (req[r].route \in {"tap", "card"}) =>
                 /\ req[r].pc = "done" /\ req[r].status = 500
                 /\ req[r].kind = "json" /\ req[r].calls = 0
                 /\ req[r].src = "none"
            /\ (req[r].route = "health") => req[r].status = 200

\* C6: on every card-serving endpoint of every deployment a failed open or
\* fetch is answered 404 with a JSON body when the source is absent (local
\* file missing, remote 404, storage provider "not found") and 500 with a
\* JSON body for any other transport or configuration failure.
C6_UniformErrorMapping ==
    \A r \in Req :
        ( /\ Serving(req[r])
          /\ req[r].pc = "done"
          /\ req[r].err \in {ConfigError, StorageNotFound, StorageFailure,
                             AxiosNotFound, AxiosUnavailable, AxiosNetwork,
                             FileMissing} )
        => /\ req[r].kind = "json"
           /\ req[r].status =
                IF req[r].err \in {StorageNotFound, AxiosNotFound, FileMissing}
                THEN 404 ELSE 500

\* C7: a failure of one request never brings the process down: whenever the
\* upstream stream of one request has failed while another request is in
\* flight, the process is up, so that the other request can complete.
C7_FailureIsolated ==
    \A r \in Req, o \in Req :
        ( /\ r # o
          /\ req[r].err = StreamError
          /\ req[o].pc \in {"signing", "fetching", "opening", "piping"} )
        => up

\* C8: at most one status is written per request, and a failure after the
\* headers were sent is logged and the connection of that request is
\* terminated, not left open.
C8_OneResponseThenClose ==
    \A r \in Req :
        /\ req[r].writes <= 1
        /\ (req[r].sent /\ req[r].err = StreamError) =>
             (req[r].logged /\ req[r].conn # "open")

C10_UpstreamReleased ==
    \A r \in Req :
        req[r].pc = "done" => req[r].src \notin {"open", "paused"}

====
